---------------------------- MODULE Spec2Model ----------------------------
(***************************************************************************)
(* Lead manager of modern-mortgage-site.  Two pages keep a collection of   *)
(* leads in React state and mirror it to localStorage:                     *)
(*   page "A" = src/unnamed/part_000   (component Leads)                   *)
(*   page "B" = src/pages/Leads.jsx    (component LeadsPage + LeadForm)    *)
(* The variable page says which of the two is mounted; names that occur in *)
(* both files carry the suffix _A or _B.                                   *)
(*                                                                         *)
(* JavaScript values are tagged records (Str, Num, NaN, Null, Undefined,   *)
(* Arr, Obj).  A JavaScript string is a sequence of symbols: a symbol is   *)
(* one character (" ", ",", "-", a digit) or an indivisible piece of text  *)
(* without blanks and commas at its ends ("Ann", "Clear to Close", a       *)
(* YYYY-MM-DD date).  trim, split, join, Number(), String() and slice are  *)
(* computed on these sequences.  One tick of the clock is one day.         *)
(***************************************************************************)
EXTENDS Integers, Sequences, FiniteSets, TLC

VARIABLES
    page,       \* "A" or "B": which page component is mounted
    leads,      \* useState leads: sequence of lead objects
    now,        \* Date.now()
    uuids,      \* number of crypto.randomUUID() results in use
    form,       \* A: useState form
    editingId,  \* A: useState editingId
    selected,   \* A: useState selected (object  String(id) -> boolean)
    editing,    \* B: useState editing (null or the lead handed to LeadForm)
    lead,       \* B: LeadForm's useState lead
    readers,    \* FileReaders whose onload has not run yet (file contents)
    steps,      \* number of events handled so far (bounds the session)
    last,       \* the event handled last: <<handler, its file if it has one>>
    phase,      \* position of the mount effects: "mounted", "loaded", "saved",
                \* then "ready", or "crashed" when a render has thrown
    queued,     \* the state update the load effect has scheduled, if any
    storage,    \* localStorage item under STORAGE_KEY (Null when absent)
    writable,   \* localStorage.setItem succeeds (FALSE: it throws)
    persisted,  \* history: the item that was in storage at mount
    q,          \* useState q (A) / query (B)
    statusFilter, \* useState statusFilter
    sourceFilter, \* B: useState sourceFilter
    downloads,  \* the file exportJSON downloaded last (Null when none)
    snapshot,   \* history: leads when the pending import's file was selected
    opened      \* history: how B's editor was opened ("new", "edit", or Null)

vars == <<page, leads, now, uuids, form, editingId, selected, editing, lead,
          readers, steps, last, phase, queued, storage, writable, persisted,
          q, statusFilter, sourceFilter, downloads, snapshot, opened>>

\* the state of the session apart from the collection and its editors
envVars == <<phase, queued, writable, persisted>>
viewVars == <<q, statusFilter, sourceFilter>>

-----------------------------------------------------------------------------
(* Bounds of the model *)
MaxLeads == 2
MaxNow == 2
MaxUuid == 2
MaxReaders == 2
MaxSteps == 5

-----------------------------------------------------------------------------
(* JavaScript values *)
Undefined == [t |-> "undefined"]
Null == [t |-> "null"]
NaN == [t |-> "NaN"]
Str(s) == [t |-> "string", s |-> s]
Num(n) == [t |-> "number", n |-> n]
Arr(a) == [t |-> "array", a |-> a]
Obj(o) == [t |-> "object", o |-> o]

Truthy(v) ==
    CASE v.t = "string" -> v.s # <<>>
      [] v.t = "number" -> v.n # 0
      [] v.t \in {"array", "object"} -> TRUE
      [] OTHER -> FALSE

\* a || b
Or(a, b) == IF Truthy(a) THEN a ELSE b

\* a ?? b
Nullish(a, b) == IF a.t \in {"undefined", "null"} THEN b ELSE a

\* o.k on an object given as a record of its own properties
Prop(o, k) == IF k \in DOMAIN o THEN o[k] ELSE Undefined

\* {...a, ...b}
Spread(a, b) ==
    [k \in DOMAIN a \cup DOMAIN b |-> IF k \in DOMAIN b THEN b[k] ELSE a[k]]

Map(s, F(_)) == [i \in 1..Len(s) |-> F(s[i])]

-----------------------------------------------------------------------------
(* Strings *)
IsWs(c) == c = " "

RECURSIVE TrimStart(_)
TrimStart(s) == IF s # <<>> /\ IsWs(Head(s)) THEN TrimStart(Tail(s)) ELSE s

RECURSIVE TrimEnd(_)
TrimEnd(s) ==
    IF s # <<>> /\ IsWs(s[Len(s)]) THEN TrimEnd(SubSeq(s, 1, Len(s) - 1)) ELSE s

\* String.prototype.trim
trim(s) == TrimEnd(TrimStart(s))

\* String.prototype.split(",")
RECURSIVE split(_)
split(s) ==
    IF \E i \in 1..Len(s) : s[i] = ","
    THEN LET i == CHOOSE j \in 1..Len(s) :
                      s[j] = "," /\ \A k \in 1..(j - 1) : s[k] # ","
         IN  <<SubSeq(s, 1, i - 1)>> \o split(SubSeq(s, i + 1, Len(s)))
    ELSE <<s>>

\* Array.prototype.join(sep) on a sequence of strings
RECURSIVE join(_, _)
join(ss, sep) ==
    IF ss = <<>> THEN <<>>
    ELSE IF Len(ss) = 1 THEN ss[1]
    ELSE ss[1] \o sep \o join(Tail(ss), sep)

Digit == <<"0", "1", "2", "3", "4", "5", "6", "7", "8", "9">>
IsDigit(c) == \E d \in 1..10 : Digit[d] = c
DigitVal(c) == (CHOOSE d \in 1..10 : Digit[d] = c) - 1

RECURSIVE NatText(_)
NatText(n) ==
    IF n < 10 THEN <<Digit[n + 1]>>
    ELSE NatText(n \div 10) \o <<Digit[(n % 10) + 1]>>

\* String(n) for an integer n
NumText(n) == IF n < 0 THEN <<"-">> \o NatText(-n) ELSE NatText(n)

RECURSIVE NatVal(_)
NatVal(s) ==
    IF s = <<>> THEN 0
    ELSE 10 * NatVal(SubSeq(s, 1, Len(s) - 1)) + DigitVal(s[Len(s)])

AllDigits(s) == s # <<>> /\ \A i \in 1..Len(s) : IsDigit(s[i])

\* Number(s) for a string s (StringToNumber): blank is 0, an optionally
\* signed run of digits is its value, anything else is NaN
StringToNumber(s) ==
    LET t == trim(s) IN
    IF t = <<>> THEN Num(0)
    ELSE IF AllDigits(t) THEN Num(NatVal(t))
    ELSE IF Head(t) = "-" /\ AllDigits(Tail(t)) THEN Num(-NatVal(Tail(t)))
    ELSE IF Head(t) = "+" /\ AllDigits(Tail(t)) THEN Num(NatVal(Tail(t)))
    ELSE NaN

\* String(v)
RECURSIVE String(_)
String(v) ==
    CASE v.t = "string" -> v.s
      [] v.t = "number" -> NumText(v.n)
      [] v.t = "NaN" -> <<"NaN">>
      [] v.t = "undefined" -> <<"undefined">>
      [] v.t = "null" -> <<"null">>
      [] v.t = "array" ->
            join([i \in 1..Len(v.a) |->
                     IF v.a[i].t \in {"undefined", "null"} THEN <<>>
                     ELSE String(v.a[i])], <<",">>)
      [] OTHER -> <<"[object Object]">>

\* Number(v)
Number(v) ==
    CASE v.t = "number" -> v
      [] v.t = "NaN" -> NaN
      [] v.t = "string" -> StringToNumber(v.s)
      [] v.t = "null" -> Num(0)
      [] v.t = "array" -> StringToNumber(String(v))
      [] OTHER -> NaN

-----------------------------------------------------------------------------
(* Dates: the day of clock tick d is the symbol DateSym[d] *)
DateSym == <<"2026-11-01", "2026-11-02", "2026-11-03", "2026-11-04",
             "2026-11-05", "2026-11-06", "2026-11-07", "2026-11-08">>
DateSyms == {DateSym[d] : d \in 1..Len(DateSym)}
TimeSym == "T00:00:00.000Z"

\* number of characters of a symbol
Width(c) == IF c \in DateSyms THEN 10 ELSE IF c = TimeSym THEN 14 ELSE 1

\* s.slice(0, n)
RECURSIVE slice0(_, _)
slice0(s, n) ==
    IF s = <<>> \/ Width(Head(s)) > n THEN <<>>
    ELSE <<Head(s)>> \o slice0(Tail(s), n - Width(Head(s)))

\* new Date(s) is a valid date
IsValidDate(s) ==
    /\ Len(s) \in {1, 2}
    /\ s[1] \in DateSyms
    /\ Len(s) = 2 => s[2] = TimeSym

\* new Date(s).toISOString() for a valid date text s
toISOString(s) == <<s[1], TimeSym>>

\* new Date(ts).toISOString().slice(0, 10)
toISODate(ts) == slice0(<<DateSym[ts], TimeSym>>, 10)

-----------------------------------------------------------------------------
(* Constants of both pages *)
STATUSES == <<"New", "Pre-Approved", "In Process", "Conditional",
              "Clear to Close", "Won", "Lost">>

\* STATUSES.includes(v)
IsStatus(v) == v.t = "string" /\ \E i \in 1..Len(STATUSES) : v.s = <<STATUSES[i]>>

\* STATUSES.indexOf(v), 0-based, -1 when absent
StatusIndex(v) ==
    IF IsStatus(v)
    THEN (CHOOSE i \in 1..Len(STATUSES) : v.s = <<STATUSES[i]>>) - 1
    ELSE -1

\* crypto.randomUUID(): the k-th identifier handed out
UuidSym == <<"uuid-1", "uuid-2", "uuid-3", "uuid-4", "uuid-5", "uuid-6">>
randomUUID(k) == Str(<<UuidSym[k]>>)


-----------------------------------------------------------------------------
(* new Map(...) with insertion order: a sequence of <<key, value>> pairs *)
MapHas(m, k) == \E i \in 1..Len(m) : m[i][1] = k
MapGet(m, k) == m[CHOOSE i \in 1..Len(m) : m[i][1] = k][2]
MapSet(m, k, v) ==
    IF MapHas(m, k)
    THEN [i \in 1..Len(m) |-> IF m[i][1] = k THEN <<k, v>> ELSE m[i]]
    ELSE Append(m, <<k, v>>)
MapValues(m) == [i \in 1..Len(m) |-> m[i][2]]

\* new Map(prev.map((l) => [l.id, l]))
RECURSIVE MapOfLeads(_)
MapOfLeads(prev) ==
    IF prev = <<>> THEN <<>>
    ELSE LET l == prev[Len(prev)] IN
         MapSet(MapOfLeads(SubSeq(prev, 1, Len(prev) - 1)), Prop(l, "id"), l)

\* prev.filter(Keep)
filter(s, Keep(_)) == SelectSeq(s, Keep)

\* prev.findIndex((x) => x.id === id), 1-based, 0 when absent
findIndex(s, id) ==
    IF \E i \in 1..Len(s) : Prop(s[i], "id") = id
    THEN CHOOSE i \in 1..Len(s) :
             Prop(s[i], "id") = id /\ \A j \in 1..(i - 1) : Prop(s[j], "id") # id
    ELSE 0

-----------------------------------------------------------------------------
(* Page A: src/unnamed/part_000 *)

defaultLead_A ==
    [name |-> Str(<<>>), contact |-> Str(<<>>), loanAmount |-> Str(<<>>),
     status |-> Str(<<"New">>), source |-> Str(<<>>), tags |-> Str(<<>>),
     notes |-> Str(<<>>), nextFollowUp |-> Str(<<>>)]

\* the comma-separated tag text as a list of trimmed, non-empty tags
tagsOfText(s) ==
    Arr(filter(Map(split(s), LAMBDA t : Str(trim(t))), Truthy))

\* new Date(f.nextFollowUp).toISOString() throws RangeError on an invalid date
sanitizeLeadThrows(f) ==
    Truthy(f.nextFollowUp) /\ ~IsValidDate(String(f.nextFollowUp))

sanitizeLead(f) ==
    [name |-> Str(trim(String(Or(f.name, Str(<<>>))))),
     contact |-> Str(trim(String(Or(f.contact, Str(<<>>))))),
     loanAmount |-> Or(Number(f.loanAmount), Num(0)),
     status |-> Or(f.status, Str(<<"New">>)),
     source |-> Str(trim(String(Or(f.source, Str(<<>>))))),
     tags |-> tagsOfText(String(Or(f.tags, Str(<<>>)))),
     notes |-> Str(trim(String(Or(f.notes, Str(<<>>))))),
     nextFollowUp |->
        IF Truthy(f.nextFollowUp)
        THEN Str(slice0(toISOString(String(f.nextFollowUp)), 10))
        ELSE Str(<<>>)]

\* as importSanitize, with createdAt always stamped with the time of the import
importSanitize_Restamp(x, fresh, t) ==
    LET l == IF x.t = "object" THEN x.o ELSE <<>> IN
    [id |-> Or(Prop(l, "id"), fresh),
     name |-> Str(String(Or(Prop(l, "name"), Str(<<>>)))),
     contact |-> Str(String(Or(Prop(l, "contact"), Str(<<>>)))),
     loanAmount |-> Or(Number(Prop(l, "loanAmount")), Num(0)),
     status |-> IF IsStatus(Prop(l, "status")) THEN Prop(l, "status")
                ELSE Str(<<"New">>),
     source |-> Str(String(Or(Prop(l, "source"), Str(<<>>)))),
     tags |-> IF Prop(l, "tags").t = "array"
              THEN Arr(Map(Prop(l, "tags").a, LAMBDA e : Str(String(e))))
              ELSE tagsOfText(String(Or(Prop(l, "tags"), Str(<<>>)))),
     notes |-> Str(String(Or(Prop(l, "notes"), Str(<<>>)))),
     nextFollowUp |->
        IF Truthy(Prop(l, "nextFollowUp"))
        THEN Str(slice0(String(Prop(l, "nextFollowUp")), 10))
        ELSE Str(<<>>),
     createdAt |-> Num(t),
     updatedAt |-> Or(Prop(l, "updatedAt"), Num(t))]

\* importSanitize(x); fresh is what crypto.randomUUID() returns, t is Date.now()
importSanitize(x, fresh, t) ==
    LET l == IF x.t = "object" THEN x.o ELSE <<>> IN
    [id |-> Or(Prop(l, "id"), fresh),
     name |-> Str(String(Or(Prop(l, "name"), Str(<<>>)))),
     contact |-> Str(String(Or(Prop(l, "contact"), Str(<<>>)))),
     loanAmount |-> Or(Number(Prop(l, "loanAmount")), Num(0)),
     status |-> IF IsStatus(Prop(l, "status")) THEN Prop(l, "status")
                ELSE Str(<<"New">>),
     source |-> Str(String(Or(Prop(l, "source"), Str(<<>>)))),
     tags |-> IF Prop(l, "tags").t = "array"
              THEN Arr(Map(Prop(l, "tags").a, LAMBDA e : Str(String(e))))
              ELSE tagsOfText(String(Or(Prop(l, "tags"), Str(<<>>)))),
     notes |-> Str(String(Or(Prop(l, "notes"), Str(<<>>)))),
     nextFollowUp |->
        IF Truthy(Prop(l, "nextFollowUp"))
        THEN Str(slice0(String(Prop(l, "nextFollowUp")), 10))
        ELSE Str(<<>>),
     createdAt |-> Or(Prop(l, "createdAt"), Num(t)),
     updatedAt |-> Or(Prop(l, "updatedAt"), Num(t))]

\* the elements of arr for which importSanitize calls crypto.randomUUID()
NeedsUuid(x) == ~Truthy(Prop(IF x.t = "object" THEN x.o ELSE <<>>, "id"))
UuidsBefore(arr, i) == Cardinality({j \in 1..(i - 1) : NeedsUuid(arr[j])})

\* arr.map(importSanitize), with u identifiers handed out before
cleaned_A(arr, u, t) ==
    [i \in 1..Len(arr) |->
        importSanitize(arr[i], randomUUID(u + UuidsBefore(arr, i) + 1), t)]

\* one round of cleaned.forEach in importJSON: merge on id, otherwise append
mergeOne_A(map, l, t) ==
    IF Truthy(l.id) /\ MapHas(map, l.id)
    THEN MapSet(map, l.id, Spread(Spread(MapGet(map, l.id), l), [updatedAt |-> Num(t)]))
    ELSE MapSet(map, l.id,
                Spread(l, [id |-> l.id,
                           createdAt |-> Or(l.createdAt, Num(t)),
                           updatedAt |-> Num(t)]))

RECURSIVE mergeAll_A(_, _, _)
mergeAll_A(map, cleaned, t) ==
    IF cleaned = <<>> THEN map
    ELSE mergeAll_A(mergeOne_A(map, Head(cleaned), t), Tail(cleaned), t)

\* the updater passed to setLeads in importJSON
mergeImport_A(prev, cleaned, t) ==
    MapValues(mergeAll_A(MapOfLeads(prev), cleaned, t))

-----------------------------------------------------------------------------
(* Inputs: what the user types and the files the user selects *)

\* a time stamp in a file that is later than every reading of the clock
FutureTs == MaxNow + 1

\* onChange values of form fields
FormInputs ==
    {<<"name", Str(<<" ">>)>>, <<"name", Str(<<"Ann", " ">>)>>,
     <<"loanAmount", Str(<<"-", "5">>)>>, <<"loanAmount", Str(<<"x">>)>>,
     <<"status", Str(<<"Won">>)>>,
     <<"tags", Str(<<"vip", ",", " ", ",">>)>>,
     <<"notes", Str(<<"call">>)>>,
     <<"nextFollowUp", Str(<<DateSym[1]>>)>>}

\* a file: its text is valid JSON or not, is empty or not, and denotes value
FileInvalid == [valid |-> FALSE, empty |-> FALSE, value |-> Undefined]
FileEmpty == [valid |-> FALSE, empty |-> TRUE, value |-> Undefined]
FileOf(v) == [valid |-> TRUE, empty |-> FALSE, value |-> v]

RecMinimal == Obj([id |-> Str(<<"a">>), name |-> Str(<<"Cy">>)])
RecSameId == Obj([id |-> Str(<<"a">>), name |-> Str(<<"Di">>)])
RecNoId == Obj([name |-> Str(<<"Cy">>)])
RecOdd ==
    Obj([id |-> Str(<<"b">>), name |-> Str(<<" ">>),
         status |-> Str(<<"Closed">>), loanAmount |-> Num(-100),
         tags |-> Arr(<<Str(<<>>), Str(<<" ">>)>>),
         createdAt |-> Num(FutureTs)])
RecFull ==
    Obj([id |-> Str(<<"c">>), name |-> Str(<<"Di">>),
         status |-> Str(<<"Clear to Close">>), loanAmount |-> Str(<<"1", "2">>),
         tags |-> Str(<<"vip", ",", " ", "hot">>), notes |-> Str(<<"call">>),
         nextFollowUp |-> Str(<<DateSym[1], TimeSym>>),
         createdAt |-> Num(1), updatedAt |-> Num(1)])
RecUuid1 == Obj([id |-> randomUUID(1), name |-> Str(<<"Cy">>)])

Files ==
    {FileInvalid, FileEmpty, FileOf(RecMinimal),
     FileOf(Arr(<<RecMinimal, RecSameId>>)), FileOf(Arr(<<RecNoId>>)),
     FileOf(Arr(<<RecOdd>>)), FileOf(Arr(<<RecFull>>)),
     FileOf(Arr(<<RecUuid1>>)), FileOf(Arr(<<Null>>))}

\* the two leads of the filtering scenario, with ids that are JSON numbers;
\* the second has a follow-up date and is Won
RecOne ==
    Obj([id |-> Num(1), name |-> Str(<<"A">>), loanAmount |-> Num(100),
         status |-> Str(<<"New">>)])
RecTwo ==
    Obj([id |-> Num(2), name |-> Str(<<"B">>), loanAmount |-> Num(500),
         status |-> Str(<<"Won">>), nextFollowUp |-> Str(<<DateSym[1]>>),
         source |-> Str(<<"Zillow">>)])

\* the inputs of the sessions that look at the list: filters, selection,
\* export
FilesView == {FileOf(Arr(<<RecOne, RecTwo>>)), FileOf(Arr(<<RecNoId>>))}
FormView ==
    {<<"name", Str(<<"Ann", " ">>)>>, <<"status", Str(<<"Lost">>)>>,
     <<"nextFollowUp", Str(<<DateSym[1]>>)>>}

\* the inputs of the sessions that start from a stored collection
FilesFew == {FileInvalid, FileOf(Arr(<<RecMinimal>>))}
FormFew == {<<"name", Str(<<"Ann", " ">>)>>, <<"notes", Str(<<"call">>)>>}

\* a file can hold an identifier of crypto.randomUUID() only when that
\* identifier has been handed out
FileKnown(file) ==
    file.value.t = "array" =>
        \A i \in 1..Len(file.value.a) : \A k \in 1..Len(UuidSym) :
            (file.value.a[i].t = "object"
             /\ Prop(file.value.a[i].o, "id") = randomUUID(k)) => k <= uuids

\* the ids of the rows on the screen
RowIds == {Prop(leads[i], "id") : i \in 1..Len(leads)}

-----------------------------------------------------------------------------
(* JSON and localStorage.  A text is given by what it denotes, as a file is. *)

\* the value JSON.stringify writes for v: properties that are undefined are
\* left out, undefined and NaN become null
RECURSIVE JsonOf(_)
JsonOf(v) ==
    CASE v.t = "array" -> Arr([i \in 1..Len(v.a) |-> JsonOf(v.a[i])])
      [] v.t = "object" ->
            Obj([k \in {x \in DOMAIN v.o : v.o[x].t # "undefined"} |-> JsonOf(v.o[k])])
      [] v.t \in {"NaN", "undefined"} -> Null
      [] OTHER -> v

\* JSON.stringify(leads)
stringify(ls) == FileOf(JsonOf(Arr([i \in 1..Len(ls) |-> Obj(ls[i])])))

\* the array JSON.parse returned, as the sequence of leads held in state
LeadsOf(v) == [i \in 1..Len(v.a) |-> v.a[i].o]

\* raw, the result of localStorage.getItem, is truthy
RawTruthy(raw) == raw # Null /\ ~raw.empty

\* items found under STORAGE_KEY at mount
StoredLead ==
    [id |-> Str(<<"s">>), name |-> Str(<<"Si">>), contact |-> Str(<<>>),
     loanAmount |-> Num(7), status |-> Str(<<"New">>), source |-> Str(<<>>),
     tags |-> Arr(<<>>), notes |-> Str(<<>>), nextFollowUp |-> Str(<<>>),
     createdAt |-> Num(1), updatedAt |-> Num(1)]
StorageInputs ==
    {Null, FileInvalid, FileOf(Obj(<<>>)), FileOf(Null),
     FileOf(Arr(<<>>)), stringify(<<StoredLead>>)}

-----------------------------------------------------------------------------
(* State machine *)

\* the state after the first render, with stores the items storage may hold
\* and writes whether localStorage.setItem may succeed
InitWith(stores, writes) ==
    /\ page \in {"A", "B"}
    /\ leads = <<>>
    /\ now = 1
    /\ uuids = 0
    /\ form = defaultLead_A
    /\ editingId = Null
    /\ selected = <<>>
    /\ editing = Null
    /\ lead = Null
    /\ readers = {}
    /\ steps = 0
    /\ last = <<"mount", Null>>
    /\ phase = "mounted"
    /\ queued = Undefined
    /\ storage \in stores
    /\ writable \in writes
    /\ persisted = storage
    /\ q = Str(<<>>)
    /\ statusFilter = "All"
    /\ sourceFilter = "All"
    /\ downloads = Null
    /\ snapshot = <<>>
    /\ opened = "none"

Init == InitWith({Null}, {TRUE})

\* the clock advances
Tick ==
    /\ now < MaxNow
    /\ now' = now + 1
    /\ UNCHANGED <<page, leads, uuids, form, editingId, selected, editing, lead,
                   readers, steps, last, envVars, storage, viewVars, downloads,
                   snapshot, opened>>

\* localStorage.setItem(STORAGE_KEY, JSON.stringify(ls)) inside try/catch
setItem(ls) == IF writable THEN stringify(ls) ELSE storage

\* the state update the load effect schedules (Undefined: none)
loaded_A(raw) ==
    IF ~RawTruthy(raw) THEN Arr(<<>>)
    ELSE IF ~raw.valid THEN Undefined
    ELSE raw.value
loaded_B(raw) ==
    IF RawTruthy(raw) /\ raw.valid THEN raw.value ELSE Undefined

\* the load effect of the mount
loadEffect ==
    /\ phase = "mounted"
    /\ phase' = "loaded"
    /\ queued' = IF page = "A" THEN loaded_A(storage) ELSE loaded_B(storage)
    /\ UNCHANGED <<page, leads, now, uuids, form, editingId, selected, editing,
                   lead, readers, steps, last, storage, writable, persisted,
                   viewVars, downloads, snapshot, opened>>

\* the save effect of the mount: it runs with the initial state
saveEffect ==
    /\ phase = "loaded"
    /\ phase' = "saved"
    /\ storage' = setItem(leads)
    /\ UNCHANGED <<page, leads, now, uuids, form, editingId, selected, editing,
                   lead, readers, steps, last, queued, writable, persisted,
                   viewVars, downloads, snapshot, opened>>

\* the render with the state the load effect scheduled, and its save effect;
\* the render throws when that state is no array ([...leads], leads.filter):
\* nothing is committed and the page is gone, queued keeps the value
rerender ==
    /\ phase = "saved"
    /\ IF queued = Undefined
       THEN phase' = "ready" /\ UNCHANGED <<leads, storage, queued>>
       ELSE IF queued.t # "array"
       THEN phase' = "crashed" /\ UNCHANGED <<leads, storage, queued>>
       ELSE /\ phase' = "ready"
            /\ leads' = LeadsOf(queued)
            /\ storage' = setItem(leads')
            /\ queued' = Undefined
    /\ UNCHANGED <<page, now, uuids, form, editingId, selected, editing, lead,
                   readers, steps, last, writable, persisted, viewVars,
                   downloads, snapshot, opened>>

Startup == loadEffect \/ saveEffect \/ rerender

\* A: onChange of a form field, setForm({...form, [k]: v})
setForm(k, v) ==
    /\ page = "A"
    /\ k \in DOMAIN defaultLead_A
    /\ form' = Spread(form, [x \in {k} |-> v])
    /\ UNCHANGED <<page, leads, now, uuids, editingId, selected, editing, lead, readers>>

\* the lead addOrUpdate writes over l when editing
updatedLead_A(l, clean, t) == Spread(Spread(l, clean), [updatedAt |-> Num(t)])

\* the lead addOrUpdate puts in front when adding
createdLead_A(fresh, clean, t) ==
    Spread(Spread([id |-> fresh], clean), [createdAt |-> Num(t), updatedAt |-> Num(t)])

\* addOrUpdate returns before setLeads
rejected_A == sanitizeLeadThrows(form) \/ ~Truthy(sanitizeLead(form).name)

\* A: addOrUpdate
addOrUpdate ==
    /\ page = "A"
    /\ IF rejected_A
       THEN UNCHANGED <<leads, uuids, form, editingId>>
       ELSE LET clean == sanitizeLead(form) IN
            IF Truthy(editingId)
            THEN /\ leads' = [i \in 1..Len(leads) |->
                                IF Prop(leads[i], "id") = editingId
                                THEN updatedLead_A(leads[i], clean, now)
                                ELSE leads[i]]
                 /\ editingId' = Null
                 /\ form' = defaultLead_A
                 /\ UNCHANGED uuids
            ELSE /\ Len(leads) < MaxLeads
                 /\ uuids < MaxUuid
                 /\ leads' = <<createdLead_A(randomUUID(uuids + 1), clean, now)>> \o leads
                 /\ uuids' = uuids + 1
                 /\ form' = defaultLead_A
                 /\ UNCHANGED editingId
    /\ UNCHANGED <<page, now, selected, editing, lead, readers>>

\* the form edit(id) shows for lead l
formOfLead_A(l) ==
    [name |-> Or(Prop(l, "name"), Str(<<>>)),
     contact |-> Or(Prop(l, "contact"), Str(<<>>)),
     loanAmount |-> Nullish(Prop(l, "loanAmount"), Str(<<>>)),
     status |-> Or(Prop(l, "status"), Str(<<"New">>)),
     source |-> Or(Prop(l, "source"), Str(<<>>)),
     tags |-> Str(join(Map(Or(Prop(l, "tags"), Arr(<<>>)).a, String), <<",", " ">>)),
     notes |-> Or(Prop(l, "notes"), Str(<<>>)),
     nextFollowUp |-> IF Truthy(Prop(l, "nextFollowUp"))
                      THEN Str(slice0(String(Prop(l, "nextFollowUp")), 10))
                      ELSE Str(<<>>)]

\* A: edit(id)
edit(id) ==
    /\ page = "A"
    /\ id \in RowIds
    /\ form' = formOfLead_A(leads[findIndex(leads, id)])
    /\ editingId' = id
    /\ UNCHANGED <<page, leads, now, uuids, selected, editing, lead, readers>>

\* A: Cancel and Clear buttons
cancelEdit ==
    /\ page = "A"
    /\ editingId' = Null
    /\ form' = defaultLead_A
    /\ UNCHANGED <<page, leads, now, uuids, selected, editing, lead, readers>>

\* delete n[key]
deleteKey(obj, key) == [k \in DOMAIN obj \ {key} |-> obj[k]]

\* A: remove(id), the confirm() answered ok or not
remove(id, ok) ==
    /\ page = "A"
    /\ id \in RowIds
    /\ IF ~ok
       THEN UNCHANGED <<leads, selected, editingId, form>>
       ELSE /\ leads' = filter(leads, LAMBDA l : Prop(l, "id") # id)
            /\ selected' = deleteKey(selected, String(id))
            /\ IF editingId = id
               THEN editingId' = Null /\ form' = defaultLead_A
               ELSE UNCHANGED <<editingId, form>>
    /\ UNCHANGED <<page, now, uuids, editing, lead, readers>>

\* A: toggleSelect(id)
toggleSelect(id) ==
    /\ page = "A"
    /\ id \in RowIds
    /\ selected' = Spread(selected,
                          [k \in {String(id)} |-> ~(k \in DOMAIN selected /\ selected[k])])
    /\ UNCHANGED <<page, leads, now, uuids, form, editingId, editing, lead, readers>>

\* Object.keys(selected).filter((k) => selected[k]), as JavaScript strings
selectedIds == {Str(k) : k \in {x \in DOMAIN selected : selected[x]}}

\* A: bulkDelete, the confirm() answered ok or not
bulkDelete(ok) ==
    /\ page = "A"
    /\ IF selectedIds = {} \/ ~ok
       THEN UNCHANGED <<leads, selected>>
       ELSE /\ leads' = filter(leads, LAMBDA l : Prop(l, "id") \notin selectedIds)
            /\ selected' = <<>>
    /\ UNCHANGED <<page, now, uuids, form, editingId, editing, lead, readers>>

\* A: importJSON(e) up to reader.readAsText(file)
importJSON_A(file) ==
    /\ page = "A"
    /\ FileKnown(file)
    /\ Cardinality(readers) < MaxReaders
    /\ readers' = readers \cup {file}
    /\ UNCHANGED <<page, leads, now, uuids, form, editingId, selected, editing, lead>>

\* JSON.parse(String(reader.result || "[]")) throws
parseThrows_A(file) == ~file.valid /\ ~file.empty
parsed_A(file) == IF file.empty THEN Arr(<<>>) ELSE file.value

\* importJSON ends in the catch block, or the user cancels the confirm()
importRejected_A(file, ok) ==
    parseThrows_A(file) \/ parsed_A(file).t # "array" \/ ~ok

\* as importResult_A, merging into the collection of the moment the file was
\* selected instead of the collection the updater receives
importResult_A_Stale(prev, file, ok, u, t) ==
    IF importRejected_A(file, ok) THEN prev
    ELSE mergeImport_A(snapshot, cleaned_A(parsed_A(file).a, u, t), t)

\* leads after reader.onload
importResult_A(prev, file, ok, u, t) ==
    IF importRejected_A(file, ok) THEN prev
    ELSE mergeImport_A(prev, cleaned_A(parsed_A(file).a, u, t), t)

\* number of identifiers crypto.randomUUID() hands out in reader.onload
importUuids_A(file, ok) ==
    IF importRejected_A(file, ok) THEN 0
    ELSE UuidsBefore(parsed_A(file).a, Len(parsed_A(file).a) + 1)

\* A: reader.onload, the confirm() answered ok or not
onload_A(file, ok) ==
    /\ page = "A"
    /\ file \in readers
    /\ readers' = readers \ {file}
    /\ uuids + importUuids_A(file, ok) <= MaxUuid
    /\ Len(importResult_A(leads, file, ok, uuids, now)) <= MaxLeads
    /\ leads' = importResult_A(leads, file, ok, uuids, now)
    /\ uuids' = uuids + importUuids_A(file, ok)
    /\ UNCHANGED <<page, now, form, editingId, selected, editing, lead>>

-----------------------------------------------------------------------------
(* Page B: src/pages/Leads.jsx *)

\* defaultLead(); fresh is what crypto.randomUUID() returns, t is Date.now()
defaultLead_B(fresh, t) ==
    [id |-> fresh, createdAt |-> Num(t), updatedAt |-> Num(t),
     name |-> Str(<<>>), phone |-> Str(<<>>), email |-> Str(<<>>),
     source |-> Str(<<"Realtor">>), agent |-> Str(<<>>),
     loanType |-> Str(<<"Conventional">>), loanAmount |-> Str(<<>>),
     propertyAddress |-> Str(<<>>), status |-> Str(<<"New">>),
     notes |-> Str(<<>>), nextFollowUp |-> Str(<<>>), closeDate |-> Str(<<>>)]

\* the fields LeadForm has an input for
FormFields_B ==
    {"name", "phone", "email", "source", "agent", "loanType", "loanAmount",
     "status", "propertyAddress", "nextFollowUp", "closeDate", "notes"}

\* B: "+ New Lead", setEditing(defaultLead()); LeadForm mounts with it
newLead ==
    /\ page = "B"
    /\ editing = Null
    /\ uuids < MaxUuid
    /\ editing' = Obj(defaultLead_B(randomUUID(uuids + 1), now))
    /\ lead' = defaultLead_B(randomUUID(uuids + 1), now)
    /\ uuids' = uuids + 1
    /\ UNCHANGED <<page, leads, now, form, editingId, selected, readers>>

\* B: the Edit button of a row, setEditing(l); LeadForm mounts with it
onEdit(i) ==
    /\ page = "B"
    /\ editing = Null
    /\ i \in 1..Len(leads)
    /\ editing' = Obj(leads[i])
    /\ lead' = leads[i]
    /\ UNCHANGED <<page, leads, now, uuids, form, editingId, selected, readers>>

\* B: LeadForm update(k, v)
update(k, v) ==
    /\ page = "B"
    /\ editing # Null
    /\ k \in FormFields_B
    /\ k = "closeDate" => Prop(lead, "status") = Str(<<"Won">>)
    /\ lead' = Spread(lead, [x \in {k} |-> v])
    /\ UNCHANGED <<page, leads, now, uuids, form, editingId, selected, editing, readers>>

\* B: Close, Cancel and a click on the backdrop, setEditing(null)
onCancel ==
    /\ page = "B"
    /\ editing # Null
    /\ editing' = Null
    /\ lead' = Null
    /\ UNCHANGED <<page, leads, now, uuids, form, editingId, selected, readers>>

\* the updater saveLead passes to setLeads; l is the lead saved
saveLead(prev, l, t) ==
    LET idx == findIndex(prev, Prop(l, "id")) IN
    IF idx = 0 THEN <<l>> \o prev
    ELSE [prev EXCEPT ![idx] = Spread(l, [updatedAt |-> Num(t)])]

\* the lead LeadForm.submit hands to onSave: update("closeDate", ...) only
\* queues a state update, the object saved is built from the current lead
submitted(l, t) == Spread(l, [updatedAt |-> Num(t)])

\* B: LeadForm submit, then saveLead
submit ==
    /\ page = "B"
    /\ editing # Null
    /\ IF ~Truthy(Prop(lead, "name"))
       THEN UNCHANGED <<leads, editing, lead>>
       ELSE /\ Len(saveLead(leads, submitted(lead, now), now)) <= MaxLeads
            /\ leads' = saveLead(leads, submitted(lead, now), now)
            /\ editing' = Null
            /\ lead' = Null
    /\ UNCHANGED <<page, now, uuids, form, editingId, selected, readers>>

\* B: removeLead(id)
removeLead(id) ==
    /\ page = "B"
    /\ editing = Null
    /\ id \in RowIds
    /\ leads' = filter(leads, LAMBDA l : Prop(l, "id") # id)
    /\ UNCHANGED <<page, now, uuids, form, editingId, selected, editing, lead, readers>>

Max(a, b) == IF a >= b THEN a ELSE b
Min(a, b) == IF a <= b THEN a ELSE b

\* as movedLead, with the index wrapping around the ends of the pipeline
movedLead_Wrap(l, dir, t) ==
    LET i == StatusIndex(Prop(l, "status"))
        next == STATUSES[((i + dir) % Len(STATUSES)) + 1]
    IN  Spread(l, [status |-> Str(<<next>>), updatedAt |-> Num(t)])

\* the lead moveStatus writes over l
movedLead(l, dir, t) ==
    LET i == StatusIndex(Prop(l, "status"))
        next == STATUSES[Max(0, Min(Len(STATUSES) - 1, i + dir)) + 1]
    IN  Spread(l, [status |-> Str(<<next>>), updatedAt |-> Num(t)])

\* B: moveStatus(id, dir)
moveStatus(id, dir) ==
    /\ page = "B"
    /\ editing = Null
    /\ id \in RowIds
    /\ leads' = [i \in 1..Len(leads) |->
                    IF Prop(leads[i], "id") # id THEN leads[i]
                    ELSE movedLead(leads[i], dir, now)]
    /\ UNCHANGED <<page, now, uuids, form, editingId, selected, editing, lead, readers>>

\* B: importJSON(e) up to reader.readAsText(file)
importJSON_B(file) ==
    /\ page = "B"
    /\ editing = Null
    /\ FileKnown(file)
    /\ Cardinality(readers) < MaxReaders
    /\ readers' = readers \cup {file}
    /\ UNCHANGED <<page, leads, now, uuids, form, editingId, selected, editing, lead>>

\* JSON.parse(reader.result) throws, or data is no array, or d.id throws
\* TypeError for an element d that is null
importThrows_B(file) ==
    \/ ~file.valid
    \/ file.value.t # "array"
    \/ \E i \in 1..Len(file.value.a) : file.value.a[i].t \in {"null", "undefined"}

\* the elements of data for which normalization uses crypto.randomUUID()
NeedsUuid_B(d) == ~Truthy(Prop(IF d.t = "object" THEN d.o ELSE <<>>, "id"))
UuidsBefore_B(data, i) == Cardinality({j \in 1..(i - 1) : NeedsUuid_B(data[j])})

\* one element of data.map(...) in importJSON
normalizeOne_B(d, fresh, t) ==
    LET o == IF d.t = "object" THEN d.o ELSE <<>> IN
    Spread(Spread(defaultLead_B(fresh, t), o),
           [id |-> Or(Prop(o, "id"), fresh),
            createdAt |-> Or(Prop(o, "createdAt"), Num(t)),
            updatedAt |-> Num(t)])

normalized_B(data, u, t) ==
    [i \in 1..Len(data) |->
        normalizeOne_B(data[i], randomUUID(u + UuidsBefore_B(data, i) + 1), t)]

\* as importResult_B, with a catch block that empties the collection
importResult_B_ClearOnError(prev, file, u, t) ==
    IF importThrows_B(file) THEN <<>>
    ELSE normalized_B(file.value.a, u, t)

\* leads after reader.onload: setLeads(normalized), or the catch block
importResult_B(prev, file, u, t) ==
    IF importThrows_B(file) THEN prev
    ELSE normalized_B(file.value.a, u, t)

\* number of identifiers of crypto.randomUUID() that reader.onload keeps
importUuids_B(file) ==
    IF importThrows_B(file) THEN 0
    ELSE UuidsBefore_B(file.value.a, Len(file.value.a) + 1)

\* B: reader.onload
onload_B(file) ==
    /\ page = "B"
    /\ file \in readers
    /\ readers' = readers \ {file}
    /\ uuids + importUuids_B(file) <= MaxUuid
    /\ Len(importResult_B(leads, file, uuids, now)) <= MaxLeads
    /\ leads' = importResult_B(leads, file, uuids, now)
    /\ uuids' = uuids + importUuids_B(file)
    /\ UNCHANGED <<page, now, form, editingId, selected, editing, lead>>

-----------------------------------------------------------------------------
(* What the render derives from the state *)

\* the clock tick (day) of a valid date text
DayOf(s) == CHOOSE d \in 1..Len(DateSym) : DateSym[d] = s[1]

\* A: overdue(l) at Date.now() = t: the end of the follow-up day is before now
overdue_A(l, t) ==
    /\ Truthy(Prop(l, "nextFollowUp"))
    /\ IsValidDate(String(Prop(l, "nextFollowUp")))
    /\ DayOf(String(Prop(l, "nextFollowUp"))) < t
    /\ Prop(l, "status") # Str(<<"Won">>)
    /\ Prop(l, "status") # Str(<<"Lost">>)

\* B: overdue(d) at new Date() in day t: the start of day d is before now
overdue_B(d, t) ==
    /\ Truthy(d)
    /\ IsValidDate(String(d))
    /\ DayOf(String(d)) <= t

\* String.prototype.toLowerCase, symbol by symbol
LowerCased ==
    <<<<"A", "a">>, <<"B", "b">>, <<"Ann", "ann">>, <<"Cy", "cy">>,
      <<"Di", "di">>, <<"Si", "si">>, <<"Zillow", "zillow">>,
      <<"Realtor", "realtor">>, <<"Conventional", "conventional">>,
      <<"NaN", "nan">>>>
toLowerCase(s) ==
    [i \in 1..Len(s) |->
        IF \E n \in 1..Len(LowerCased) : LowerCased[n][1] = s[i]
        THEN LowerCased[CHOOSE n \in 1..Len(LowerCased) : LowerCased[n][1] = s[i]][2]
        ELSE s[i]]

\* String.prototype.includes
includes(hay, needle) ==
    \E i \in 0..(Len(hay) - Len(needle)) : SubSeq(hay, i + 1, i + Len(needle)) = needle

\* A: the texts the search looks at
searchTexts_A(l) ==
    {String(Or(Prop(l, "name"), Str(<<>>))),
     String(Or(Prop(l, "contact"), Str(<<>>))),
     String(Or(Prop(l, "source"), Str(<<>>))),
     String(Or(Prop(l, "notes"), Str(<<>>))),
     String(Or(Str(join([i \in 1..Len(Or(Prop(l, "tags"), Arr(<<>>)).a) |->
                            String(Or(Prop(l, "tags"), Arr(<<>>)).a[i])],
                        <<",", " ">>)),
               Str(<<>>)))}

\* SORTS["Newest"](a, b) and SORTS["Newest Created"](a, b)
newest_A(a, b) ==
    Or(Prop(b, "createdAt"), Num(0)).n - Or(Prop(a, "createdAt"), Num(0)).n
newest_B(a, b) == Prop(b, "createdAt").n - Prop(a, "createdAt").n

\* list.sort(SORTS[sortBy]) with the initial sortBy; the sort is stable
RECURSIVE sort_A(_)
sort_A(list) ==
    IF list = <<>> THEN <<>>
    ELSE LET r == sort_A(SubSeq(list, 1, Len(list) - 1))
             x == list[Len(list)]
             k == Cardinality({i \in 1..Len(r) : newest_A(r[i], x) <= 0})
         IN  SubSeq(r, 1, k) \o <<x>> \o SubSeq(r, k + 1, Len(r))
RECURSIVE sort_B(_)
sort_B(list) ==
    IF list = <<>> THEN <<>>
    ELSE LET r == sort_B(SubSeq(list, 1, Len(list) - 1))
             x == list[Len(list)]
             k == Cardinality({i \in 1..Len(r) : newest_B(r[i], x) <= 0})
         IN  SubSeq(r, 1, k) \o <<x>> \o SubSeq(r, k + 1, Len(r))

\* as filteredLeads, without the status filter
filteredLeads_SearchOnly(ls, qq, sf) ==
    LET needle == toLowerCase(trim(qq.s))
        found == IF needle # <<>>
                 THEN filter(ls, LAMBDA l :
                          \E v \in searchTexts_A(l) : includes(toLowerCase(v), needle))
                 ELSE ls
    IN  sort_A(found)

\* A: filteredLeads for query qq and status filter sf
filteredLeads(ls, qq, sf) ==
    LET needle == toLowerCase(trim(qq.s))
        found == IF needle # <<>>
                 THEN filter(ls, LAMBDA l :
                          \E v \in searchTexts_A(l) : includes(toLowerCase(v), needle))
                 ELSE ls
        kept == IF sf # "All"
                THEN filter(found, LAMBDA l :
                         Or(Prop(l, "status"), Str(<<"New">>)) = Str(<<sf>>))
                ELSE found
    IN  sort_A(kept)

\* A: totalVol
RECURSIVE totalVol(_)
totalVol(list) ==
    IF list = <<>> THEN 0
    ELSE Or(Number(Prop(Head(list), "loanAmount")), Num(0)).n + totalVol(Tail(list))

\* B: [l.name, ..., l.loanType].join(" ")
searchText_B(l) ==
    join([i \in 1..7 |->
             LET v == Prop(l, <<"name", "email", "phone", "agent",
                                "propertyAddress", "notes", "loanType">>[i])
             IN  IF v.t \in {"undefined", "null"} THEN <<>> ELSE String(v)],
         <<" ">>)

\* B: filtered for query qq, status filter sf and source filter src
filtered(ls, qq, sf, src) ==
    LET needle == toLowerCase(trim(qq.s))
        byStatus == filter(ls, LAMBDA l :
                        IF sf = "All" THEN TRUE
                        ELSE Or(Prop(l, "status"), Str(<<"New">>)) = Str(<<sf>>))
        bySource == filter(byStatus, LAMBDA l :
                        IF src = "All" THEN TRUE ELSE Prop(l, "source") = Str(<<src>>))
        found == filter(bySource, LAMBDA l :
                     IF needle = <<>> THEN TRUE
                     ELSE includes(toLowerCase(searchText_B(l)), needle))
    IN  sort_B(found)

\* onChange of the search box and of the filter selects
setQ(v) == q' = v /\ UNCHANGED <<statusFilter, sourceFilter, downloads>>
setStatusFilter(v) ==
    statusFilter' = v /\ UNCHANGED <<q, sourceFilter, downloads>>
setSourceFilter(v) ==
    /\ page = "B"
    /\ sourceFilter' = v
    /\ UNCHANGED <<q, statusFilter, downloads>>

\* what the user types in the search box and picks in the selects
Queries == {Str(<<>>), Str(<<" ", "B", " ">>), Str(<<"a">>)}
StatusPicks == {"All", "Won", "New"}
SourcePicks == {"All", "Realtor", "Referral"}

\* B: metrics.overdueCount
overdueCount(ls, t) ==
    Len(filter(ls, LAMBDA l : overdue_B(Prop(l, "nextFollowUp"), t)))

-----------------------------------------------------------------------------
(* Next-state relations: the steps of either page with form inputs FI (pairs *)
(* <<field, text>>) and files FS                                             *)

\* as persist, with a save effect that never runs
persist_Never(setsLeads) == storage' = storage

\* the save effect after a handler: it runs when the handler called setLeads
persist(setsLeads) ==
    storage' = IF setsLeads THEN setItem(leads') ELSE storage

\* one event of the session: handler op runs (on file arg, if it has one) and
\* calls setLeads or not; the history variables follow
Event(op, arg, A, setsLeads) ==
    /\ phase = "ready"
    /\ steps < MaxSteps
    /\ steps' = steps + 1
    /\ last' = <<op, arg>>
    /\ A
    /\ persist(setsLeads)
    /\ snapshot' = IF op = "importJSON" THEN leads
                   ELSE IF op = "onload" \/ readers' # {} THEN snapshot
                   ELSE <<>>
    /\ opened' = IF op = "newLead" THEN "new"
                 ELSE IF op = "onEdit" THEN "edit"
                 ELSE IF editing' = Null THEN "none" ELSE opened
    /\ UNCHANGED <<envVars, viewVars, downloads>>

NextA(FI, FS) ==
    \/ \E in \in FI : Event("setForm", Null, setForm(in[1], in[2]), FALSE)
    \/ Event("addOrUpdate", Null, addOrUpdate, ~rejected_A)
    \/ \E id \in RowIds : Event("edit", Null, edit(id), FALSE)
    \/ Event("cancelEdit", Null, cancelEdit, FALSE)
    \/ \E id \in RowIds, ok \in BOOLEAN : Event("remove", Null, remove(id, ok), ok)
    \/ \E id \in RowIds : Event("toggleSelect", Null, toggleSelect(id), FALSE)
    \/ \E ok \in BOOLEAN :
          Event("bulkDelete", Null, bulkDelete(ok), ok /\ selectedIds # {})
    \/ \E file \in FS : Event("importJSON", Null, importJSON_A(file), FALSE)
    \/ \E file \in readers, ok \in BOOLEAN :
          Event("onload", file, onload_A(file, ok), ~importRejected_A(file, ok))

NextB(FI, FS) ==
    \/ Event("newLead", Null, newLead, FALSE)
    \/ \E i \in 1..Len(leads) : Event("onEdit", Null, onEdit(i), FALSE)
    \/ \E in \in FI : Event("update", Null, update(in[1], in[2]), FALSE)
    \/ Event("onCancel", Null, onCancel, FALSE)
    \/ Event("submit", Null, submit, Truthy(Prop(lead, "name")))
    \/ \E id \in RowIds : Event("removeLead", Null, removeLead(id), TRUE)
    \/ \E id \in RowIds, dir \in {-1, 1} :
          Event("moveStatus", Null, moveStatus(id, dir), TRUE)
    \/ \E file \in FS : Event("importJSON", Null, importJSON_B(file), FALSE)
    \/ \E file \in readers :
          Event("onload", file, onload_B(file), ~importThrows_B(file))

\* one event of a handler that leaves the collection and its editors alone
ViewEvent(op, A) ==
    /\ phase = "ready"
    /\ steps < MaxSteps
    /\ steps' = steps + 1
    /\ last' = <<op, Null>>
    /\ A
    /\ UNCHANGED <<page, leads, now, uuids, form, editingId, selected, editing,
                   lead, readers, envVars, storage, snapshot, opened>>

\* exportJSON: the browser downloads JSON.stringify(leads, null, 2)
exportJSON ==
    /\ downloads' = stringify(leads)
    /\ UNCHANGED viewVars

\* the files the user has downloaded from the page
Downloaded == IF downloads = Null THEN {} ELSE {downloads}

Next == Startup \/ Tick \/ NextA(FormInputs, Files) \/ NextB(FormInputs, Files)

Spec == Init /\ [][Next]_vars

\* sessions that export the collection and import what they exported
NextExport ==
    \/ Startup
    \/ Tick
    \/ ViewEvent("exportJSON", exportJSON)
    \/ NextA(FormInputs, Files \cup FilesView \cup Downloaded)
    \/ NextB(FormInputs, Files \cup FilesView \cup Downloaded)

SpecExport == Init /\ [][NextExport]_vars

\* sessions that look at the list
NextView ==
    \/ Startup
    \/ Tick
    \/ \E v \in Queries : ViewEvent("setQ", setQ(v))
    \/ \E v \in StatusPicks : ViewEvent("setStatusFilter", setStatusFilter(v))
    \/ \E v \in SourcePicks : ViewEvent("setSourceFilter", setSourceFilter(v))
    \/ NextA(FormView, FilesView)
    \/ NextB(FormView, FilesView)

SpecView == Init /\ [][NextView]_vars

\* sessions that start from whatever storage holds, with storage writes that
\* succeed or throw
InitStore == InitWith(StorageInputs, BOOLEAN)

NextStore ==
    Startup \/ Tick \/ NextA(FormFew, FilesFew) \/ NextB(FormFew, FilesFew)

SpecStore == InitStore /\ [][NextStore]_vars

-----------------------------------------------------------------------------
(* Properties *)

Won == Str(<<"Won">>)

\* the step is reader.onload of file
ImportRan(file) == steps' = steps + 1 /\ last' = <<"onload", file>>

\* the text of file is JSON for an array
IsJsonArray(file) == file.valid /\ file.value.t = "array"

\* the ids and, per id, the fields that occur in the records of a file
FileRecords(file) ==
    {file.value.a[n].o : n \in {m \in 1..Len(file.value.a) : file.value.a[m].t = "object"}}
FileIds(file) == {Prop(d, "id") : d \in FileRecords(file)}
FileFields(file, id) == UNION {DOMAIN d : d \in {e \in FileRecords(file) : Prop(e, "id") = id}}

\* C1: no two leads of the collection have the same id.
LeadIdsUnique ==
    \A i, j \in 1..Len(leads) :
        i # j => Prop(leads[i], "id") # Prop(leads[j], "id")

\* C2: an import of a JSON array keeps every lead whose id is not in the
\* file, unchanged, and does not shrink the collection.
ImportMergesIntoStore ==
    [][\A file \in Files :
          (ImportRan(file) /\ IsJsonArray(file)) =>
              /\ Len(leads') >= Len(leads)
              /\ \A i \in 1..Len(leads) :
                    Prop(leads[i], "id") \notin FileIds(file) =>
                        \E j \in 1..Len(leads') : leads'[j] = leads[i]]_vars

\* C3: when an imported record has the id of an existing lead, every field
\* of that lead which no such record contains keeps its value, updatedAt
\* excepted.
ImportKeepsAbsentFields ==
    [][\A file \in Files :
          (page = "A" /\ ImportRan(file) /\ IsJsonArray(file)) =>
              \A i \in 1..Len(leads) :
                  Prop(leads[i], "id") \in FileIds(file) =>
                      \A j \in 1..Len(leads') :
                          Prop(leads'[j], "id") = Prop(leads[i], "id") =>
                              \A k \in DOMAIN leads[i] \
                                       (FileFields(file, Prop(leads[i], "id"))
                                        \cup {"updatedAt"}) :
                                  Prop(leads'[j], k) = leads[i][k]]_vars

\* C4: reader.onload of a file whose text is not JSON for an array leaves the
\* collection as it was, on both pages.
ImportParseFailureKeepsLeads ==
    [][\A file \in Files :
          (ImportRan(file) /\ ~IsJsonArray(file)) => leads' = leads]_vars

\* C4 witness: on page B, with leads in the collection, onload has just run
\* on a file that is not JSON for an array.
ImportParseFailureSeen ==
    /\ page = "B"
    /\ leads # <<>>
    /\ \E file \in Files : last = <<"onload", file>> /\ ~IsJsonArray(file)

\* C5: every lead's status is one of the seven pipeline values.
StatusInPipeline ==
    \A i \in 1..Len(leads) : IsStatus(Prop(leads[i], "status"))

\* C6: a lead that moveStatus turns to Won, or that the form saves as Won,
\* with no close date, is stored with closeDate set to today's date.
CloseDateSetOnWon ==
    [][\A j \in 1..Len(leads') :
          (\/ \E id \in RowIds, dir \in {-1, 1} :
                 /\ moveStatus(id, dir)
                 /\ Prop(leads[j], "id") = id
                 /\ Prop(leads[j], "status") # Won
                 /\ Prop(leads'[j], "status") = Won
                 /\ ~Truthy(Prop(leads[j], "closeDate"))
           \/ /\ submit
              /\ leads' # leads
              /\ Prop(leads'[j], "id") = Prop(lead, "id")
              /\ Prop(lead, "status") = Won
              /\ ~Truthy(Prop(lead, "closeDate")))
          => Prop(leads'[j], "closeDate") = Str(toISODate(now))]_vars

\* C7: every lead's loanAmount is a number that is not negative.
LoanAmountNonNegativeNumber ==
    \A i \in 1..Len(leads) :
        /\ Prop(leads[i], "loanAmount").t = "number"
        /\ Prop(leads[i], "loanAmount").n >= 0

\* C8: createdAt <= updatedAt for every lead.
CreatedNotAfterUpdated ==
    \A i \in 1..Len(leads) :
        /\ Prop(leads[i], "createdAt").t = "number"
        /\ Prop(leads[i], "updatedAt").t = "number"
        /\ Prop(leads[i], "createdAt").n <= Prop(leads[i], "updatedAt").n

\* C9: no lead has a tag that is empty or whitespace only.
NoBlankTags ==
    \A i \in 1..Len(leads) :
        Prop(leads[i], "tags").t = "array" =>
            \A n \in 1..Len(Prop(leads[i], "tags").a) :
                trim(String(Prop(leads[i], "tags").a[n])) # <<>>

\* C10: a submit of the form with a name that is empty after trimming changes
\* nothing: on page A leads, form and editingId, on page B leads.
BlankNameRejected ==
    [][/\ (addOrUpdate /\ steps' = steps + 1 /\ last' = <<"addOrUpdate", Null>>
           /\ trim(String(form.name)) = <<>>)
          => (leads' = leads /\ form' = form /\ editingId' = editingId)
       /\ (submit /\ steps' = steps + 1 /\ last' = <<"submit", Null>>
           /\ trim(String(Prop(lead, "name"))) = <<>>)
          => leads' = leads]_vars

\* the checkbox of the row of the lead with this id is ticked:
\* checked={!!selected[l.id]}
IsTicked(id) == String(id) \in DOMAIN selected /\ selected[String(id)]

\* C11: after a confirmed bulkDelete no lead whose checkbox was ticked is
\* left, every lead whose checkbox was not ticked is kept unchanged, and the
\* number of leads removed is the count the confirm() showed.
BulkDeleteRemovesSelected ==
    [][(bulkDelete(TRUE) /\ steps' = steps + 1 /\ last' = <<"bulkDelete", Null>>
        /\ selectedIds # {})
       => /\ \A j \in 1..Len(leads') : ~IsTicked(Prop(leads'[j], "id"))
          /\ \A i \in 1..Len(leads) :
                ~IsTicked(Prop(leads[i], "id")) =>
                    \E j \in 1..Len(leads') : leads'[j] = leads[i]
          /\ Len(leads) - Len(leads') = Cardinality(selectedIds)]_vars

\* C12: saving an edit of a lead whose id is no longer in the collection
\* leaves the collection as it was, on page A (addOrUpdate with editingId
\* set) and on page B (submit of an editor that onEdit opened).
StaleEditSaveIsNoOp ==
    [][/\ (addOrUpdate /\ steps' = steps + 1 /\ last' = <<"addOrUpdate", Null>>
           /\ ~rejected_A /\ Truthy(editingId) /\ editingId \notin RowIds)
          => leads' = leads
       /\ (submit /\ steps' = steps + 1 /\ last' = <<"submit", Null>>
           /\ opened = "edit" /\ Truthy(Prop(lead, "name"))
           /\ Prop(lead, "id") \notin RowIds)
          => leads' = leads]_vars

\* two collections have the same leads in the same order, updatedAt excepted
SameButUpdatedAt(a, b) ==
    /\ Len(a) = Len(b)
    /\ \A i \in 1..Len(a) :
          \A k \in (DOMAIN a[i] \cup DOMAIN b[i]) \ {"updatedAt"} :
              Prop(b[i], k) = Prop(a[i], k)

\* C13: importing the file that exportJSON wrote from the collection as it is
\* now leaves the collection unchanged apart from updatedAt: the same leads
\* in the same order with the same values of all other fields.
ExportImportRoundTrip ==
    [][\A file \in Downloaded :
          (ImportRan(file) /\ file = stringify(leads))
              => SameButUpdatedAt(leads, leads')]_vars

\* C13 witness: on page A the import of the export of a collection of two
\* leads has just run and has refreshed updatedAt.
ExportImportSeen ==
    /\ page = "A"
    /\ Len(leads) = 2
    /\ downloads # Null
    /\ last = <<"onload", downloads>>
    /\ Len(downloads.value.a) = 2
    /\ \A i \in 1..Len(leads) :
          /\ Prop(downloads.value.a[i].o, "id") = Prop(leads[i], "id")
          /\ Prop(downloads.value.a[i].o, "updatedAt") # Prop(leads[i], "updatedAt")

\* the position one step from i in direction dir, kept within the pipeline
OneStep(i, dir) ==
    IF i + dir < 0 THEN 0
    ELSE IF i + dir > Len(STATUSES) - 1 THEN Len(STATUSES) - 1
    ELSE i + dir

\* C14: moveStatus(id, dir) moves the status of the lead with that id one
\* position along the pipeline, staying at "New" for -1 and at "Lost" for +1,
\* and changes no lead with another id.
MoveStatusOneStepClamped ==
    [][\A id \in RowIds, dir \in {-1, 1} :
          (moveStatus(id, dir) /\ steps' = steps + 1
           /\ last' = <<"moveStatus", Null>>)
          => /\ Len(leads') = Len(leads)
             /\ \A j \in 1..Len(leads) :
                   IF Prop(leads[j], "id") # id THEN leads'[j] = leads[j]
                   ELSE IsStatus(Prop(leads[j], "status")) =>
                            StatusIndex(Prop(leads'[j], "status")) =
                                OneStep(StatusIndex(Prop(leads[j], "status")), dir)]_vars

\* C14 witness: the lead imported at "Clear to Close" has been moved three
\* times in a session of five events and is at "Lost": the third move was +1
\* on a lead at "Lost".
MoveStatusClampedSeen ==
    /\ page = "B"
    /\ steps = 5
    /\ readers = {}
    /\ last = <<"moveStatus", Null>>
    /\ \E i \in 1..Len(leads) :
          /\ Prop(leads[i], "id") = Str(<<"c">>)
          /\ Prop(leads[i], "status") = Str(<<"Lost">>)

\* the row of lead l is marked overdue on the mounted page
MarkedOverdue(l) ==
    IF page = "A" THEN overdue_A(l, now)
    ELSE overdue_B(Prop(l, "nextFollowUp"), now)

\* the day of the follow-up date of lead l, 0 when it has none
FollowUpDay(l) ==
    IF Truthy(Prop(l, "nextFollowUp")) /\ IsValidDate(String(Prop(l, "nextFollowUp")))
    THEN DayOf(String(Prop(l, "nextFollowUp")))
    ELSE 0

\* lead l is Won or Lost
Closed(l) == Prop(l, "status") \in {Str(<<"Won">>), Str(<<"Lost">>)}

\* C15: a lead is marked overdue only when it has a follow-up date not later
\* than today and is neither Won nor Lost, it is marked whenever that date is
\* before today and it is neither Won nor Lost, and the overdue count of page
\* B is the number of such marked leads.
OverdueExcludesWonLost ==
    /\ \A i \in 1..Len(leads) :
          /\ MarkedOverdue(leads[i]) =>
                /\ ~Closed(leads[i])
                /\ FollowUpDay(leads[i]) \in 1..now
          /\ (FollowUpDay(leads[i]) \in 1..(now - 1) /\ ~Closed(leads[i]))
                => MarkedOverdue(leads[i])
    /\ page = "B" =>
          overdueCount(leads, now) =
              Cardinality({i \in 1..Len(leads) :
                              MarkedOverdue(leads[i]) /\ ~Closed(leads[i])})

\* the list the mounted page shows
Projection ==
    IF page = "A" THEN filteredLeads(leads, q, statusFilter)
    ELSE filtered(leads, q, statusFilter, sourceFilter)

\* lead l matches the search text: the query, trimmed and in lower case, is
\* empty or occurs in a searchable text of l in lower case
MatchesSearch(l) ==
    LET n == toLowerCase(trim(q.s)) IN
    \/ n = <<>>
    \/ /\ page = "A"
       /\ \E v \in searchTexts_A(l) : includes(toLowerCase(v), n)
    \/ /\ page = "B"
       /\ includes(toLowerCase(searchText_B(l)), n)

MatchesStatus(l) ==
    statusFilter = "All" \/ Prop(l, "status") = Str(<<statusFilter>>)

MatchesSource(l) ==
    sourceFilter = "All" \/ Prop(l, "source") = Str(<<sourceFilter>>)

\* the sum of loanAmount over the leads at the positions in idx
RECURSIVE Volume(_)
Volume(idx) ==
    IF idx = {} THEN 0
    ELSE LET i == CHOOSE j \in idx : TRUE
         IN  Prop(leads[i], "loanAmount").n + Volume(idx \ {i})

\* the list shown holds exactly the leads at the positions in idx, and on
\* page A the volume shown is the sum of their loanAmount
ShowsExactly(idx) ==
    /\ Len(Projection) = Cardinality(idx)
    /\ \A i \in 1..Len(leads) :
          (i \in idx) <=> (\E j \in 1..Len(Projection) : Projection[j] = leads[i])
    /\ \A j \in 1..Len(Projection) : \E i \in idx : Projection[j] = leads[i]
    /\ page = "A" => totalVol(Projection) = Volume(idx)

\* C16 as stated: the list shown holds exactly the leads that match the
\* search text and whose status equals the status filter, and its volume is
\* the sum of their loanAmount.
ProjectionIsSearchAndStatus ==
    ShowsExactly({i \in 1..Len(leads) :
                     MatchesSearch(leads[i]) /\ MatchesStatus(leads[i])})

\* C16 amended: the list shown holds exactly the leads that match the search
\* text, whose status equals the status filter and, on page B, whose source
\* equals the source filter; on page A its volume is the sum of their
\* loanAmount.
ProjectionIsConjunctionOfFilters ==
    ShowsExactly({i \in 1..Len(leads) :
                     /\ MatchesSearch(leads[i])
                     /\ MatchesStatus(leads[i])
                     /\ page = "B" => MatchesSource(leads[i])})

\* C16 witness: the scenario of the specification on page A: leads 1 (New,
\* 100) and 2 (Won, 500), status filter "Won", the list is lead 2 alone and
\* the volume is 500.
ProjectionScenarioSeen ==
    /\ page = "A"
    /\ statusFilter = "Won"
    /\ Len(leads) = 2
    /\ {Prop(leads[i], "id") : i \in 1..Len(leads)} = {Num(1), Num(2)}
    /\ Len(Projection) = 1
    /\ Prop(Projection[1], "id") = Num(2)
    /\ totalVol(Projection) = 500

\* the item found in storage at mount is the text of a persisted collection
HeldCollection == RawTruthy(persisted) /\ persisted.valid /\ persisted.value.t = "array"

\* the item found in storage at mount is absent, empty or not JSON
HeldNothing == ~RawTruthy(persisted) \/ ~persisted.valid

\* the mount effects and the render they cause are over, no handler has run
StartupOver == phase \in {"ready", "crashed"} /\ steps = 0

\* after startup the collection in memory is empty when storage held nothing
\* parseable, and is the persisted collection, which storage holds again,
\* when storage held one
StartupResult ==
    StartupOver =>
        /\ HeldNothing => leads = <<>>
        /\ HeldCollection =>
              /\ leads = LeadsOf(persisted.value)
              /\ storage # Null
              /\ storage.valid
              /\ storage.value = persisted.value

\* C17: startup never fails, whatever storage holds: no render throws, and
\* after startup the collection in memory is the empty sequence when the key
\* was absent or unparseable and the persisted collection, held by storage
\* again, otherwise.
StartupLoadNeverFails ==
    /\ phase # "crashed"
    /\ StartupResult

\* storage holds the text of a JSON array that parses to the collection
StorageHoldsLeads ==
    /\ RawTruthy(storage)
    /\ storage.valid
    /\ storage.value.t = "array"
    /\ LeadsOf(storage.value) = leads

\* C18: once startup is over and while storage writes succeed, storage holds
\* exactly the collection in memory after every handler; when storage writes
\* throw, storage keeps the item it had at mount, and no render fails unless
\* that item was JSON for something that is no array.
StorageFollowsCollection ==
    /\ (phase = "ready" /\ writable) => StorageHoldsLeads
    /\ ~writable => storage = persisted
    /\ phase = "crashed" =>
          (RawTruthy(persisted) /\ persisted.valid /\ persisted.value.t # "array")

\* C18 witness: storage writes succeed, a handler that changes the collection
\* has just run, and storage holds the changed collection, not the item of
\* the mount.
StorageFollowedSeen ==
    /\ phase = "ready"
    /\ writable
    /\ last[1] \in {"addOrUpdate", "remove", "bulkDelete", "onload", "submit",
                    "removeLead", "moveStatus"}
    /\ leads # <<>>
    /\ storage # persisted
    /\ StorageHoldsLeads

\* the ids of the leads of a collection
IdsOf(ls) == {Prop(ls[i], "id") : i \in 1..Len(ls)}

\* C19: on page A, when reader.onload runs, the import merges into the
\* collection of that moment: a lead added since the file was selected is
\* still there, a lead deleted since then stays absent unless the file has
\* its id, and every lead whose id is not in the file is kept as it is,
\* edits made since then included.
ImportMergesIntoCurrent ==
    [][\A file \in Files :
          (page = "A" /\ ImportRan(file) /\ IsJsonArray(file)) =>
              /\ \A id \in RowIds \ IdsOf(snapshot) : id \in IdsOf(leads')
              /\ \A id \in IdsOf(snapshot) \ (RowIds \cup FileIds(file)) :
                    id \notin IdsOf(leads')
              /\ \A i \in 1..Len(leads) :
                    Prop(leads[i], "id") \notin FileIds(file) =>
                        \E j \in 1..Len(leads') : leads'[j] = leads[i]]_vars

\* C19 witness: on page A an import has just run that brought a lead of its
\* file into the collection, next to a lead that was added while the
\* FileReader was pending.
ImportAfterAddSeen ==
    /\ page = "A"
    /\ \E file \in Files :
          /\ last = <<"onload", file>>
          /\ IsJsonArray(file)
          /\ \E i, j \in 1..Len(leads) :
                /\ Prop(leads[i], "id") \in FileIds(file)
                /\ Prop(leads[j], "id") \notin FileIds(file)
                /\ Prop(leads[j], "id") \notin IdsOf(snapshot)

\* C20: while the mount effects and the render they cause are still under
\* way, storage that held a non-empty persisted collection at mount still
\* holds it.
StartupKeepsPersisted ==
    (phase \in {"mounted", "loaded", "saved"}
     /\ HeldCollection /\ persisted.value.a # <<>>)
        => storage = persisted

=============================================================================
